---------------------------- MODULE Spec2Model ----------------------------
(***************************************************************************)
(* A model of the CHIP-8 core (src/src/chip8.rs) and of the bevy shell     *)
(* that drives it (src/src/emulator.rs, src/src/emulator/systems.rs).      *)
(*                                                                         *)
(* A usize is modelled by the signed representative of its residue modulo  *)
(* 2^64: a negative number r stands for 2^64 + r (so -1 is usize::MAX).    *)
(* Every quantity of the model stays far from +-2^31, so the arithmetic on *)
(* representatives is exact.  An arithmetic overflow panics in a build     *)
(* with overflow checks (debug) and wraps in a build without (release):    *)
(* the build is the variable overflow_checks, chosen at start-up.          *)
(*                                                                         *)
(* The three arrays of Memory are held by their non-default cells: ram and *)
(* stack are functions from the indices whose cell is not 0 to the cell,   *)
(* and vram is the set of the <<y, x>> whose cell is true.  A cell outside *)
(* them reads as 0 (false), which is what Chip8::new fills the arrays      *)
(* with.  The bounds check Rust makes on every index is made explicitly    *)
(* (InRam, InStack) wherever the code indexes.                             *)
(***************************************************************************)
EXTENDS Integers, Sequences, FiniteSets, TLC

VARIABLES
    v,                  \* Registers::v, the 16 general-purpose registers
    dt,                 \* Registers::dt
    st,                 \* Registers::st
    i,                  \* Registers::i
    pc,                 \* Registers::pc
    sp,                 \* Registers::sp
    ram,                \* Memory::ram, the cells that are not 0
    stack,              \* Memory::stack, the cells that are not 0
    vram,               \* Memory::vram, the <<y, x>> with vram[y][x] true
    curr,               \* InputState::curr
    prev,               \* InputState::prev
    key_just_released,  \* InputState::key_just_released
    overflow_checks,    \* the build: TRUE with overflow checks, FALSE without
    result,             \* what the last call returned (or that it panicked)
    last,               \* history: the last call, its decoded instruction and the scalars before it
    touched,            \* history: the RAM indices the last step used
    calls,              \* history: the call sites of the CALLs not yet returned from
    curr_at_step,       \* history: curr as it was when the last step ran (-1 before the first)
    steps,              \* history: the steps taken from a probe word
    before,             \* history: the machine before the last traced step
    at_store,           \* history: the V registers, I and x of the last traced Fx55 whose
                        \* RAM no later step has written (x = -1 where there is none)
    earlier,            \* history: the machine before the traced step before the last
    unpressed,          \* history: <<k, whether key k was down>> for the traced
                        \* Unpressed(k) events since the last step
    ran,                \* the shell: the systems that have run in the current app update
    updates,            \* the shell: the app updates completed
    host_pressed        \* the shell: the host keys (indices of KEYMAP) held down

vars == <<v, dt, st, i, pc, sp, ram, stack, vram, curr, prev, key_just_released,
          overflow_checks, result, last, touched, calls, curr_at_step, steps,
          before, at_store, earlier, unpressed, ran, updates, host_pressed>>

----------------------------------------------------------------------------
(* Program constants *)

MEM_SIZE == 4096

STACK_SIZE == 1024

PROGMEM_START == 512

FONTMEM_START == 0

DISPLAY_WIDTH == 64

DISPLAY_HEIGHT == 32

DEFAULT_FONT ==
    << 240, 144, 144, 144, 240,
        32,  96,  32,  32, 112,
       240,  16, 240, 128, 240,
       240,  16, 240,  16, 240,
       144, 144, 240,  16,  16,
       240, 128, 240,  16, 240,
       240, 128, 240, 144, 240,
       240,  16,  32,  64,  64,
       240, 144, 240, 144, 240,
       240, 144, 240,  16, 240,
       240, 144, 240, 144, 144,
       224, 144, 224, 144, 224,
       240, 128, 128, 128, 240,
       224, 144, 144, 144, 224,
       240, 128, 240, 128, 240,
       240, 128, 240, 128, 128 >>

\* The CHIP-8 key of each host key, in the order of the table.
KEYMAP == << 1, 2, 3, 12, 4, 5, 6, 13, 7, 8, 9, 14, 10, 0, 11, 15 >>

\* The steps the shell takes in one app update.
STEPS_PER_UPDATE == 10

----------------------------------------------------------------------------
(* Bounds of the model *)

\* The host keys that are ever touched: the first MaxHostKeys entries of KEYMAP.
MaxHostKeys == 2

\* The steps taken from each probe word under DecodeSpec.
MaxProbeSteps == 1

\* The app updates of the shell under ShellSpec.
MaxUpdates == 2

\* The steps taken from the start of a program that ends in a jump
MaxOffsetSteps == 2

\* The value of I up to which a program that keeps adding to I is stepped
MaxIndex == 66000

----------------------------------------------------------------------------
(* Fixed-width integer helpers *)

Pow2(n) == 2 ^ n

Bit(x, k) == (x \div Pow2(k)) % 2

RECURSIVE BitAnd(_, _, _)
BitAnd(a, b, n) ==
    IF n = 0 THEN 0
    ELSE (a % 2) * (b % 2) + 2 * BitAnd(a \div 2, b \div 2, n - 1)

RECURSIVE BitOr(_, _, _)
BitOr(a, b, n) ==
    IF n = 0 THEN 0
    ELSE (IF a % 2 = 1 \/ b % 2 = 1 THEN 1 ELSE 0) + 2 * BitOr(a \div 2, b \div 2, n - 1)

RECURSIVE BitXor(_, _, _)
BitXor(a, b, n) ==
    IF n = 0 THEN 0
    ELSE ((a + b) % 2) + 2 * BitXor(a \div 2, b \div 2, n - 1)

\* !x on a u16
Not16(x) == 65535 - x

\* (x as f32).log2() as u8 for a u16 x: log2(0) is -inf, which the cast saturates to 0;
\* otherwise the cast truncates, leaving the index of the highest set bit.
RECURSIVE Log2AsU8(_)
Log2AsU8(x) == IF x <= 1 THEN 0 ELSE 1 + Log2AsU8(x \div 2)

----------------------------------------------------------------------------
(* The machine as one value: the fields of Chip8, and whether the call that *)
(* produced it panicked, with the RAM indices the call used.                *)

Machine ==
    [ v |-> v, dt |-> dt, st |-> st, i |-> i, pc |-> pc, sp |-> sp,
      ram |-> ram, stack |-> stack, vram |-> vram,
      curr |-> curr, prev |-> prev, key_just_released |-> key_just_released,
      checks |-> overflow_checks, panicked |-> FALSE, touched |-> {} ]

\* An array of zeros, and the reads and writes of an array held by its cells
\* that are not 0
Zeroed == [k \in {} |-> 0]

At(array, k) == IF k \in DOMAIN array THEN array[k] ELSE 0

Put(array, k, val) ==
    IF val = 0 THEN [x \in DOMAIN array \ {k} |-> array[x]]
    ELSE [x \in DOMAIN array \cup {k} |-> IF x = k THEN val ELSE array[x]]

\* Chip8::new with the program counter left at 0
NewAtZero(checks) ==
    [ v |-> [r \in 0..15 |-> 0], dt |-> 0, st |-> 0, i |-> 0, pc |-> 0, sp |-> 0,
      ram |-> Zeroed, stack |-> Zeroed, vram |-> {},
      curr |-> 0, prev |-> 0, key_just_released |-> FALSE,
      checks |-> checks, panicked |-> FALSE, touched |-> {} ]

\* Chip8::new
New(checks) ==
    [ v |-> [r \in 0..15 |-> 0], dt |-> 0, st |-> 0, i |-> 0, pc |-> 512, sp |-> 0,
      ram |-> Zeroed, stack |-> Zeroed, vram |-> {},
      curr |-> 0, prev |-> 0, key_just_released |-> FALSE,
      checks |-> checks, panicked |-> FALSE, touched |-> {} ]

Panic(m) == [m EXCEPT !.panicked = TRUE]

InRam(a) == a >= 0 /\ a < MEM_SIZE

InStack(s) == s >= 0 /\ s < STACK_SIZE

\* for i in 0..bytes.len() { ram[start + i] = bytes[i] }: the bytes that fit are
\* written in order, and the first index past the array panics.
CopyIn(m, start, bytes) ==
    LET fits    == IF start + Len(bytes) <= MEM_SIZE THEN Len(bytes) ELSE MEM_SIZE - start
        written == start..(start + fits - 1)
        kept    == (DOMAIN m.ram \ written) \cup {a \in written : bytes[a - start + 1] # 0}
        m1      == [m EXCEPT !.ram = [a \in kept |-> IF a \in written
                                                     THEN bytes[a - start + 1] ELSE m.ram[a]]]
    IN  IF fits < Len(bytes) THEN Panic(m1) ELSE m1

\* Chip8::load_rom, given the bytes of the file
LoadRom(m, bytes) == IF m.panicked THEN m ELSE CopyIn(m, PROGMEM_START, bytes)

\* Chip8::load_font: path is [some |-> FALSE] for None, or [some |-> TRUE, bytes |-> ...]
\* with the bytes of the file
LoadFont(m, path) ==
    LET bytes == IF path.some THEN path.bytes ELSE DEFAULT_FONT
    IN  IF m.panicked THEN m ELSE CopyIn(m, FONTMEM_START, bytes)

----------------------------------------------------------------------------
(* usize arithmetic on representatives *)

SubOverflows(a, b) == a >= 0 /\ a - b < 0

AddOverflows(a, b) == a < 0 /\ a + b >= 0

----------------------------------------------------------------------------
(* The decoder *)

Inst(op, addr, regx, regy, imm, nibble) ==
    [op |-> op, addr |-> addr, regx |-> regx, regy |-> regy, imm |-> imm, nibble |-> nibble]

\* The match of Chip8::get_current_instruction on the opcode's components
DecodeMatch(inst_word, addr, nibble, imm, regx, regy) ==
    LET I(op) == Inst(op, addr, regx, regy, imm, nibble)
    IN  CASE inst_word = 0 ->
                (CASE addr = \h0E0 -> I("Cls")
                   [] addr = \h0EE -> I("Ret")
                   [] OTHER      -> I("Sys"))
          [] inst_word = 1 -> I("Jump")
          [] inst_word = 2 -> I("Call")
          [] inst_word = 3 -> I("SkipEqualImm")
          [] inst_word = 4 -> I("SkipNotEqualImm")
          [] inst_word = 5 -> I("SkipEqualReg")
          [] inst_word = 6 -> I("LoadImm")
          [] inst_word = 7 -> I("AddImm")
          [] inst_word = 8 ->
                (CASE nibble = 0  -> I("LoadReg")
                   [] nibble = 1  -> I("OrReg")
                   [] nibble = 2  -> I("AndReg")
                   [] nibble = 3  -> I("XorReg")
                   [] nibble = 4  -> I("AddReg")
                   [] nibble = 5  -> I("SubReg")
                   [] nibble = 6  -> I("ShiftRightReg")
                   [] nibble = 7  -> I("SubNReg")
                   [] nibble = \hE -> I("ShiftLeftReg")
                   [] OTHER       -> I("Unknown"))
          [] inst_word = 9  -> I("SkipNotEqualReg")
          [] inst_word = \hA -> I("LoadAddress")
          [] inst_word = \hB -> I("JumpWithOffset")
          [] inst_word = \hC -> I("RandAndImmediate")
          [] inst_word = \hD -> I("Draw")
          [] inst_word = \hE ->
                (CASE imm = \h9E -> I("SkipIfKeyPressed")
                   [] imm = \hA1 -> I("SkipIfKeyNotPressed")
                   [] OTHER     -> I("Unknown"))
          [] inst_word = \hF ->
                (CASE imm = \h07 -> I("ReadDelayTimer")
                   [] imm = \h0A -> I("StoreKeypress")
                   [] imm = \h15 -> I("WriteDelayTimer")
                   [] imm = \h18 -> I("WriteSoundTimer")
                   [] imm = \h1E -> I("AddIndex")
                   [] imm = \h29 -> I("SetSpriteLoc")
                   [] imm = \h33 -> I("StoreBCD")
                   [] imm = \h55 -> I("StoreRegisters")
                   [] imm = \h65 -> I("ReadRegisters")
                   [] OTHER     -> I("Unknown"))
          [] OTHER -> I("Unknown")

\* Decode with the input arm's catch-all taken for SKNP instead of Unknown
DecodeInputCatchAll(opcode) ==
    LET d == DecodeMatch(BitAnd(opcode, \hF000, 16) \div 4096,
                         BitAnd(opcode, \h0FFF, 16),
                         BitAnd(opcode, \h000F, 16),
                         BitAnd(opcode, \h00FF, 16),
                         BitAnd(opcode, \h0F00, 16) \div 256,
                         BitAnd(opcode, \h00F0, 16) \div 16)
    IN  IF opcode \div 4096 = \hE /\ d.op = "Unknown"
        THEN [d EXCEPT !.op = "SkipIfKeyNotPressed"] ELSE d

\* Chip8::get_current_instruction, given the opcode at the PC
Decode(opcode) ==
    DecodeMatch(BitAnd(opcode, \hF000, 16) \div 4096,
                BitAnd(opcode, \h0FFF, 16),
                BitAnd(opcode, \h000F, 16),
                BitAnd(opcode, \h00FF, 16),
                BitAnd(opcode, \h0F00, 16) \div 256,
                BitAnd(opcode, \h00F0, 16) \div 16)

\* Chip8::get_current_opcode: the machine after the two reads (panicked when an
\* index is outside the RAM) and the opcode read
Fetch(m) ==
    IF ~InRam(m.pc)
    THEN [m |-> Panic([m EXCEPT !.touched = @ \cup {m.pc}]), opcode |-> 0]
    ELSE IF ~InRam(m.pc + 1)
    THEN [m |-> Panic([m EXCEPT !.touched = @ \cup {m.pc, m.pc + 1}]), opcode |-> 0]
    ELSE [m |-> [m EXCEPT !.touched = @ \cup {m.pc, m.pc + 1}],
          opcode |-> BitOr(At(m.ram, m.pc) * 256, At(m.ram, m.pc + 1), 16)]

----------------------------------------------------------------------------
(* The executor: one operator per arm of the match in do_next_instruction. *)
(* Each maps the machine before the arm to the machine after it; a panic   *)
(* leaves the machine as the statements before the panic left it.          *)

SetV(m, r, val) == [m EXCEPT !.v[r] = val]

Touch(m, a) == [m EXCEPT !.touched = @ \cup {a}]

ExecCls(m) == [m EXCEPT !.vram = {}]

\* Ret with neither the overflow check nor the bounds check
ExecRetUnchecked(m) ==
    LET m1 == [m EXCEPT !.sp = m.sp - 1]
    IN  [m1 EXCEPT !.pc = At(m1.stack, m1.sp)]

\* Ret reading the top of the stack without popping it
ExecRetPeeking(m) ==
    IF SubOverflows(m.sp, 1) /\ m.checks THEN Panic(m)
    ELSE IF ~InStack(m.sp - 1) THEN Panic(m)
    ELSE [m EXCEPT !.pc = At(m.stack, m.sp - 1)]

ExecRet(m) ==
    IF SubOverflows(m.sp, 1) /\ m.checks THEN Panic(m)
    ELSE LET m1 == [m EXCEPT !.sp = m.sp - 1]
         IN  IF ~InStack(m1.sp) THEN Panic(m1)
             ELSE [m1 EXCEPT !.pc = At(m1.stack, m1.sp)]

ExecJump(m, addr) ==
    IF SubOverflows(addr, 2) /\ m.checks THEN Panic(m)
    ELSE [m EXCEPT !.pc = addr - 2]

\* JumpWithOffset compensating for the step's pc += 2 as Jump does
ExecJumpWithOffsetLess2(m, addr) == [m EXCEPT !.pc = addr + m.v[0] - 2]

ExecJumpWithOffset(m, addr) == [m EXCEPT !.pc = addr + m.v[0]]

\* Call with no bounds check on the stack slot
ExecCallUnchecked(m, addr) ==
    LET m1 == [m EXCEPT !.stack = Put(m.stack, m.sp, m.pc), !.sp = m.sp + 1]
    IN  IF SubOverflows(addr, 2) /\ m.checks THEN Panic(m1)
        ELSE [m1 EXCEPT !.pc = addr - 2]

\* Call pushing the address of the next instruction instead of its own
ExecCallPushNext(m, addr) ==
    IF ~InStack(m.sp) THEN Panic(m)
    ELSE LET m1 == [m EXCEPT !.stack = Put(m.stack, m.sp, m.pc + 2), !.sp = m.sp + 1]
         IN  IF SubOverflows(addr, 2) /\ m.checks THEN Panic(m1)
             ELSE [m1 EXCEPT !.pc = addr - 2]

ExecCall(m, addr) ==
    IF ~InStack(m.sp) THEN Panic(m)
    ELSE LET m1 == [m EXCEPT !.stack = Put(m.stack, m.sp, m.pc), !.sp = m.sp + 1]
         IN  IF SubOverflows(addr, 2) /\ m.checks THEN Panic(m1)
             ELSE [m1 EXCEPT !.pc = addr - 2]

\* The skips taken when the predicate fails
ExecSkipInverted(m, holds) == IF holds THEN m ELSE [m EXCEPT !.pc = m.pc + 2]

\* the four skips: pc += 2 when the predicate holds
ExecSkip(m, holds) == IF holds THEN [m EXCEPT !.pc = m.pc + 2] ELSE m

\* LoadImm clearing VF as the logic instructions do
ExecLoadImmClearsFlag(m, reg, imm) == SetV(SetV(m, 15, 0), reg, imm)

ExecLoadImm(m, reg, imm) == SetV(m, reg, imm)

ExecLoadReg(m, regx, regy) == SetV(m, regx, m.v[regy])

ExecLoadAddress(m, addr) == [m EXCEPT !.i = addr]

ExecReadDelayTimer(m, reg) == SetV(m, reg, m.dt)

ExecWriteDelayTimer(m, reg) == [m EXCEPT !.dt = m.v[reg]]

ExecWriteSoundTimer(m, reg) == [m EXCEPT !.st = m.v[reg]]

\* AddImm writing the carry to VF as AddReg does
ExecAddImmCarrying(m, reg, imm) ==
    LET sum == m.v[reg] + imm
        m1  == SetV(m, 15, IF sum > 255 THEN 1 ELSE 0)
    IN  SetV(m1, reg, sum % 256)

ExecAddImm(m, reg, imm) == SetV(m, reg, (m.v[reg] + imm) % 256)

ExecAddReg(m, regx, regy) ==
    LET sum      == m.v[regx] + m.v[regy]
        overflow == sum > 255
        m1       == SetV(m, 15, IF overflow THEN 1 ELSE 0)
    IN  SetV(m1, regx, sum % 256)

ExecAddIndex(m, reg) == [m EXCEPT !.i = m.i + m.v[reg]]

ExecSubReg(m, regx, regy) ==
    LET diff   == m.v[regx] - m.v[regy]
        borrow == diff < 0
        m1     == SetV(m, 15, IF borrow THEN 0 ELSE 1)
    IN  SetV(m1, regx, diff % 256)

\* SubNReg subtracting Vy from Vx as SubReg does
ExecSubNRegAsSub(m, regx, regy) ==
    LET diff   == m.v[regx] - m.v[regy]
        borrow == diff < 0
        m1     == SetV(m, 15, IF borrow THEN 0 ELSE 1)
    IN  SetV(m1, regx, diff % 256)

ExecSubNReg(m, regx, regy) ==
    LET diff   == m.v[regy] - m.v[regx]
        borrow == diff < 0
        m1     == SetV(m, 15, IF borrow THEN 0 ELSE 1)
    IN  SetV(m1, regx, diff % 256)

\* ShiftRightReg shifting Vx where it stands, Vy not copied
ExecShiftRightRegInPlace(m, regx, regy) ==
    LET lsb == BitAnd(m.v[regx], 1, 8)
        m2  == SetV(m, regx, m.v[regx] \div 2)
    IN  SetV(m2, 15, lsb)

ExecShiftRightReg(m, regx, regy) ==
    LET m1  == SetV(m, regx, m.v[regy])
        lsb == BitAnd(m1.v[regx], 1, 8)
        m2  == SetV(m1, regx, m1.v[regx] \div 2)
    IN  SetV(m2, 15, lsb)

ExecShiftLeftReg(m, regx, regy) ==
    LET m1  == SetV(m, regx, m.v[regy])
        msb == BitAnd(m1.v[regx], 128, 8) \div 128
        m2  == SetV(m1, regx, (m1.v[regx] * 2) % 256)
    IN  SetV(m2, 15, msb)

\* OrReg with VF left as it was
ExecOrRegKeepsFlag(m, regx, regy) == SetV(m, regx, BitOr(m.v[regx], m.v[regy], 8))

ExecOrReg(m, regx, regy) == SetV(SetV(m, regx, BitOr(m.v[regx], m.v[regy], 8)), 15, 0)

ExecAndReg(m, regx, regy) == SetV(SetV(m, regx, BitAnd(m.v[regx], m.v[regy], 8)), 15, 0)

ExecXorReg(m, regx, regy) == SetV(SetV(m, regx, BitXor(m.v[regx], m.v[regy], 8)), 15, 0)

\* rnd is the byte thread_rng() yields
ExecRandAndImmediate(m, reg, imm, rnd) == SetV(SetV(m, reg, BitAnd(rnd, imm, 8)), 15, 0)

\* The pixel of Draw wrapped around the edges instead of skipped
DrawPixelWrapping(m, start_x, start_y, row, col) ==
    IF ~InRam(m.i + row) THEN Panic(Touch(m, m.i + row))
    ELSE LET m0          == Touch(m, m.i + row)
             pixel_state == BitAnd(At(m0.ram, m0.i + row), Pow2(7 - col), 8) > 0
             x           == (start_x + col) % DISPLAY_WIDTH
             y           == (start_y + row) % DISPLAY_HEIGHT
         IN  IF ~pixel_state THEN m0
             ELSE LET m1 == IF <<y, x>> \in m0.vram THEN SetV(m0, 15, 1) ELSE m0
                  IN  [m1 EXCEPT !.vram = IF <<y, x>> \in @
                                          THEN @ \ {<<y, x>>} ELSE @ \cup {<<y, x>>}]

\* The pixel of Draw set instead of toggled
DrawPixelSetting(m, start_x, start_y, row, col) ==
    IF ~InRam(m.i + row) THEN Panic(Touch(m, m.i + row))
    ELSE LET m0          == Touch(m, m.i + row)
             pixel_state == BitAnd(At(m0.ram, m0.i + row), Pow2(7 - col), 8) > 0
             x           == start_x + col
             y           == start_y + row
         IN  IF ~pixel_state THEN m0
             ELSE IF x >= DISPLAY_WIDTH \/ y >= DISPLAY_HEIGHT THEN m0
             ELSE LET m1 == IF <<y, x>> \in m0.vram THEN SetV(m0, 15, 1) ELSE m0
                  IN  [m1 EXCEPT !.vram = @ \cup {<<y, x>>}]

\* One pixel of the sprite: the body of the inner loop of Draw
DrawPixel(m, start_x, start_y, row, col) ==
    IF ~InRam(m.i + row) THEN Panic(Touch(m, m.i + row))
    ELSE LET m0          == Touch(m, m.i + row)
             pixel_state == BitAnd(At(m0.ram, m0.i + row), Pow2(7 - col), 8) > 0
             x           == start_x + col
             y           == start_y + row
         IN  IF ~pixel_state THEN m0
             ELSE IF x >= DISPLAY_WIDTH \/ y >= DISPLAY_HEIGHT THEN m0
             ELSE LET m1 == IF <<y, x>> \in m0.vram THEN SetV(m0, 15, 1) ELSE m0
                  IN  [m1 EXCEPT !.vram = IF (<<y, x>> \in @) # pixel_state
                                          THEN @ \cup {<<y, x>>} ELSE @ \ {<<y, x>>}]

RECURSIVE DrawCols(_, _, _, _, _)
DrawCols(m, start_x, start_y, row, col) ==
    IF col = 8 \/ m.panicked THEN m
    ELSE DrawCols(DrawPixel(m, start_x, start_y, row, col), start_x, start_y, row, col + 1)

RECURSIVE DrawRows(_, _, _, _, _)
DrawRows(m, start_x, start_y, row, imm) ==
    IF row >= imm \/ m.panicked THEN m
    ELSE DrawRows(DrawCols(m, start_x, start_y, row, 0), start_x, start_y, row + 1, imm)

ExecDraw(m, regx, regy, imm) ==
    LET m1      == SetV(m, 15, 0)
        start_x == m1.v[regx] % DISPLAY_WIDTH
        start_y == m1.v[regy] % DISPLAY_HEIGHT
    IN  DrawRows(m1, start_x, start_y, 0, imm)

ExecSetSpriteLoc(m, reg) == [m EXCEPT !.i = m.v[reg] * 5]

\* 0x1 << amount on a u16: a shift by 16 or more panics with overflow checks and
\* otherwise shifts by the amount's low four bits.  The machine (panicked or not)
\* and the mask.
Shl16(m, amount) ==
    IF amount >= 16 /\ m.checks THEN [m |-> Panic(m), mask |-> 0]
    ELSE [m |-> m, mask |-> Pow2(amount % 16)]

ExecSkipIfKeyPressed(m, reg) ==
    LET s == Shl16(m, m.v[reg])
    IN  IF s.m.panicked THEN s.m ELSE ExecSkip(m, BitAnd(m.curr, s.mask, 16) > 0)

ExecSkipIfKeyNotPressed(m, reg) ==
    LET s == Shl16(m, m.v[reg])
    IN  IF s.m.panicked THEN s.m ELSE ExecSkip(m, BitAnd(m.curr, s.mask, 16) = 0)

\* ram[a] = val, with the bounds check of the index
RamWrite(m, a, val) ==
    IF ~InRam(a) THEN Panic(Touch(m, a))
    ELSE [Touch(m, a) EXCEPT !.ram = Put(@, a, val)]

\* StoreBCD taking the digits of the register's index
ExecStoreBCDOfIndex(m, reg) ==
    LET hundreds == reg \div 100
        tens     == (reg % 100) \div 10
        ones     == reg % 10
        m1       == RamWrite(m, m.i, hundreds)
        m2       == IF m1.panicked THEN m1 ELSE RamWrite(m1, m1.i + 1, tens)
    IN  IF m2.panicked THEN m2 ELSE RamWrite(m2, m2.i + 2, ones)

ExecStoreBCD(m, reg) ==
    LET hundreds == m.v[reg] \div 100
        tens     == (m.v[reg] % 100) \div 10
        ones     == m.v[reg] % 10
        m1       == RamWrite(m, m.i, hundreds)
        m2       == IF m1.panicked THEN m1 ELSE RamWrite(m1, m1.i + 1, tens)
    IN  IF m2.panicked THEN m2 ELSE RamWrite(m2, m2.i + 2, ones)

RECURSIVE StoreLoop(_, _, _)
StoreLoop(m, r, reg) ==
    IF r > reg \/ m.panicked THEN m
    ELSE StoreLoop(RamWrite(m, m.i + r, m.v[r]), r + 1, reg)

ExecStoreRegisters(m, reg) ==
    LET m1 == StoreLoop(m, 0, reg)
    IN  IF m1.panicked THEN m1 ELSE [m1 EXCEPT !.i = m1.i + reg + 1]

RECURSIVE ReadLoop(_, _, _)
ReadLoop(m, r, reg) ==
    IF r > reg \/ m.panicked THEN m
    ELSE IF ~InRam(m.i + r) THEN Panic(Touch(m, m.i + r))
    ELSE ReadLoop(SetV(Touch(m, m.i + r), r, At(m.ram, m.i + r)), r + 1, reg)

ExecReadRegisters(m, reg) ==
    LET m1 == ReadLoop(m, 0, reg)
    IN  IF m1.panicked THEN m1 ELSE [m1 EXCEPT !.i = m1.i + reg + 1]

\* StoreKeypress that goes on waiting until a key that was down has gone up
ExecStoreKeypressOfDownKey(m, reg) ==
    LET changed_inputs  == BitXor(m.curr, m.prev, 16)
        released_inputs == BitAnd(changed_inputs, Not16(m.curr), 16)
    IN  IF m.key_just_released /\ released_inputs # 0
        THEN SetV(m, reg, Log2AsU8(released_inputs))
        ELSE IF SubOverflows(m.pc, 2) /\ m.checks THEN Panic(m)
        ELSE [m EXCEPT !.pc = m.pc - 2]

\* StoreKeypress clearing the register while it waits
ExecStoreKeypressClearing(m, reg) ==
    IF m.key_just_released
    THEN LET changed_inputs  == BitXor(m.curr, m.prev, 16)
             released_inputs == BitAnd(changed_inputs, Not16(m.curr), 16)
         IN  SetV(m, reg, Log2AsU8(released_inputs))
    ELSE IF SubOverflows(m.pc, 2) /\ m.checks THEN Panic(m)
    ELSE SetV([m EXCEPT !.pc = m.pc - 2], reg, 0)

ExecStoreKeypress(m, reg) ==
    IF m.key_just_released
    THEN LET changed_inputs  == BitXor(m.curr, m.prev, 16)
             released_inputs == BitAnd(changed_inputs, Not16(m.curr), 16)
         IN  SetV(m, reg, Log2AsU8(released_inputs))
    ELSE IF SubOverflows(m.pc, 2) /\ m.checks THEN Panic(m)
    ELSE [m EXCEPT !.pc = m.pc - 2]

\* The match of do_next_instruction on the decoded instruction (Unknown excepted)
Exec(m, inst, rnd) ==
    LET op == inst.op  x == inst.regx  y == inst.regy
    IN  CASE op = "Sys"                 -> m
          [] op = "Cls"                 -> ExecCls(m)
          [] op = "Ret"                 -> ExecRet(m)
          [] op = "Jump"                -> ExecJump(m, inst.addr)
          [] op = "JumpWithOffset"      -> ExecJumpWithOffset(m, inst.addr)
          [] op = "Call"                -> ExecCall(m, inst.addr)
          [] op = "SkipEqualImm"        -> ExecSkip(m, m.v[x] = inst.imm)
          [] op = "SkipNotEqualImm"     -> ExecSkip(m, m.v[x] # inst.imm)
          [] op = "SkipEqualReg"        -> ExecSkip(m, m.v[x] = m.v[y])
          [] op = "SkipNotEqualReg"     -> ExecSkip(m, m.v[x] # m.v[y])
          [] op = "LoadImm"             -> ExecLoadImm(m, x, inst.imm)
          [] op = "LoadReg"             -> ExecLoadReg(m, x, y)
          [] op = "LoadAddress"         -> ExecLoadAddress(m, inst.addr)
          [] op = "ReadDelayTimer"      -> ExecReadDelayTimer(m, x)
          [] op = "WriteDelayTimer"     -> ExecWriteDelayTimer(m, x)
          [] op = "WriteSoundTimer"     -> ExecWriteSoundTimer(m, x)
          [] op = "AddImm"              -> ExecAddImm(m, x, inst.imm)
          [] op = "AddReg"              -> ExecAddReg(m, x, y)
          [] op = "AddIndex"            -> ExecAddIndex(m, x)
          [] op = "SubReg"              -> ExecSubReg(m, x, y)
          [] op = "SubNReg"             -> ExecSubNReg(m, x, y)
          [] op = "ShiftRightReg"       -> ExecShiftRightReg(m, x, y)
          [] op = "ShiftLeftReg"        -> ExecShiftLeftReg(m, x, y)
          [] op = "OrReg"               -> ExecOrReg(m, x, y)
          [] op = "AndReg"              -> ExecAndReg(m, x, y)
          [] op = "XorReg"              -> ExecXorReg(m, x, y)
          [] op = "RandAndImmediate"    -> ExecRandAndImmediate(m, x, inst.imm, rnd)
          [] op = "Draw"                -> ExecDraw(m, x, y, inst.nibble)
          [] op = "SetSpriteLoc"        -> ExecSetSpriteLoc(m, x)
          [] op = "SkipIfKeyPressed"    -> ExecSkipIfKeyPressed(m, x)
          [] op = "SkipIfKeyNotPressed" -> ExecSkipIfKeyNotPressed(m, x)
          [] op = "StoreBCD"            -> ExecStoreBCD(m, x)
          [] op = "StoreRegisters"      -> ExecStoreRegisters(m, x)
          [] op = "ReadRegisters"       -> ExecReadRegisters(m, x)
          [] op = "StoreKeypress"       -> ExecStoreKeypress(m, x)

NoInst == Inst("None", 0, 0, 0, 0, 0)

\* PostStep with the delay timer ticking in the step
PostStepTicking(m) ==
    [m EXCEPT !.pc = m.pc + 2, !.key_just_released = FALSE,
              !.dt = IF m.dt > 0 THEN m.dt - 1 ELSE 0]

\* The statements after the match: pc += 2, the flag reset
PostStep(m) == [m EXCEPT !.pc = m.pc + 2, !.key_just_released = FALSE]

\* Chip8::do_next_instruction: the machine after the call, how the call ended
\* ("Ok", "Err" or "panic"), the opcode returned and the instruction decoded
\* The step whose Err is returned after the PC has been advanced and the
\* just-released flag reset
DoNextInstructionErrAdvances(m, rnd) ==
    LET f    == Fetch(m)
        inst == Decode(f.opcode)
    IN  IF f.m.panicked
        THEN [m |-> f.m, kind |-> "panic", opcode |-> 0, inst |-> NoInst]
        ELSE IF inst.op = "Unknown"
        THEN [m |-> PostStep(f.m), kind |-> "Err", opcode |-> f.opcode, inst |-> inst]
        ELSE LET m1 == Exec(f.m, inst, rnd)
             IN  IF m1.panicked
                 THEN [m |-> m1, kind |-> "panic", opcode |-> 0, inst |-> inst]
                 ELSE [m |-> PostStep(m1), kind |-> "Ok", opcode |-> f.opcode, inst |-> inst]

DoNextInstruction(m, rnd) ==
    LET f    == Fetch(m)
        inst == Decode(f.opcode)
    IN  IF f.m.panicked
        THEN [m |-> f.m, kind |-> "panic", opcode |-> 0, inst |-> NoInst]
        ELSE IF inst.op = "Unknown"
        THEN [m |-> f.m, kind |-> "Err", opcode |-> f.opcode, inst |-> inst]
        ELSE LET m1 == Exec(f.m, inst, rnd)
             IN  IF m1.panicked
                 THEN [m |-> m1, kind |-> "panic", opcode |-> 0, inst |-> inst]
                 ELSE [m |-> PostStep(m1), kind |-> "Ok", opcode |-> f.opcode, inst |-> inst]

\* do_frame decrementing with no test for zero
DoFrameOnWrapping(m) ==
    [m EXCEPT !.st = (m.st - 1) % 256, !.dt = (m.dt - 1) % 256]

\* do_frame handing out a cleared display
DoFrameOnClearing(m) ==
    LET m1 == IF m.st > 0 THEN [m EXCEPT !.st = m.st - 1] ELSE m
        m2 == IF m1.dt > 0 THEN [m1 EXCEPT !.dt = m1.dt - 1] ELSE m1
    IN  [m2 EXCEPT !.vram = {}]

\* Chip8::do_frame
DoFrameOn(m) ==
    LET m1 == IF m.st > 0 THEN [m EXCEPT !.st = m.st - 1] ELSE m
    IN  IF m1.dt > 0 THEN [m1 EXCEPT !.dt = m1.dt - 1] ELSE m1

\* change_input with a press taking the release flag back
ChangeInputOnPressResets(m, input) ==
    LET m1 == [m EXCEPT !.prev = m.curr]
    IN  IF input.pressed
        THEN [m1 EXCEPT !.curr = BitOr(m1.curr, Pow2(input.key), 16),
                        !.key_just_released = FALSE]
        ELSE [m1 EXCEPT !.curr = BitAnd(m1.curr, Not16(Pow2(input.key)), 16),
                        !.key_just_released = TRUE]

\* Chip8::change_input: input is [pressed |-> BOOLEAN, key |-> 0..15]
\* change_input editing the bit without copying curr into prev first
ChangeInputOnKeepsPrev(m, input) ==
    IF input.pressed
    THEN [m EXCEPT !.curr = BitOr(m.curr, Pow2(input.key), 16)]
    ELSE [m EXCEPT !.curr = BitAnd(m.curr, Not16(Pow2(input.key)), 16),
                   !.key_just_released = TRUE]

ChangeInputOn(m, input) ==
    LET m1 == [m EXCEPT !.prev = m.curr]
    IN  IF input.pressed
        THEN [m1 EXCEPT !.curr = BitOr(m1.curr, Pow2(input.key), 16)]
        ELSE [m1 EXCEPT !.curr = BitAnd(m1.curr, Not16(Pow2(input.key)), 16),
                        !.key_just_released = TRUE]

----------------------------------------------------------------------------
(* Programs.  A ROM file is a sequence of bytes; the programs are written  *)
(* as 16-bit words, stored big-endian.                                     *)

RECURSIVE Bytes(_)
Bytes(words) ==
    IF words = <<>> THEN <<>>
    ELSE <<Head(words) \div 256, Head(words) % 256>> \o Bytes(Tail(words))

\* 200: CALL 206; 202: JP 208; 206: RET; 208: JP 208
RomCallRet == Bytes(<< \h2206, \h1208, \h0000, \h00EE, \h1208 >>)

\* 200: CALL 206; 202: JP 202; 206: CALL 20A; 208: RET; 20A: RET
RomNested == Bytes(<< \h2206, \h1202, \h0000, \h220A, \h00EE, \h00EE >>)

\* 200: RET, on the empty stack
RomRetEmpty == Bytes(<< \h00EE >>)

\* 200: LD V0, 5; 202: 8018, no instruction
RomUnknown == Bytes(<< \h6005, \h8018 >>)

\* 200: LD V0, 3; 202: LD DT, V0; 204: LD ST, V0; 206: LD V1, DT; 208: JP 208
RomTimers == Bytes(<< \h6003, \hF015, \hF018, \hF107, \h1208 >>)

\* 200: LD I, FFF; 202: LD B, V0
RomBcdEdge == Bytes(<< \hAFFF, \hF033 >>)

\* 200: JP FFE, the last word of the RAM (a SYS)
RomJumpEnd == Bytes(<< \h1FFE >>)

\* 200: LD V0, 2; 202: JP V0, FFE
RomJumpV0 == Bytes(<< \h6002, \hBFFE >>)

\* 200: LD V0, K; 202: JP 200
RomWaitKey == Bytes(<< \hF00A, \h1200 >>)

\* 200: JP 000, into the font
RomJumpZero == Bytes(<< \h1000 >>)

\* 200: CALL 200, for ever
RomRecurse == Bytes(<< \h2200 >>)

\* LD V1, 7; LD V1, K; JP 0x202
RomKeyIntoV1 == Bytes(<<\h6107, \hF10A, \h1202>>)

Roms == { RomCallRet, RomNested, RomRetEmpty, RomUnknown, RomTimers, RomBcdEdge,
          RomJumpEnd, RomJumpV0, RomWaitKey, RomJumpZero }

StepRoms == Roms \cup { RomRecurse }

\* One word of each selector of the decoder: every first nibble with every low byte
ProbeWords == { n1 * 4096 + kk : n1 \in 0..15, kk \in 0..255 }

ProbeRoms == { Bytes(<<w>>) : w \in ProbeWords }

Fonts == { [some |-> FALSE] }

----------------------------------------------------------------------------
(* The state after emu_setup, and the calls of the core's public surface *)

NoInput == [pressed |-> FALSE, key |-> 0]

\* The big-endian word at RAM[PC]:RAM[PC+1], or -1 where the RAM has no such cells
WordAtPC ==
    IF pc >= 0 /\ pc + 1 < MEM_SIZE THEN At(ram, pc) * 256 + At(ram, pc + 1) ELSE -1

\* The last call, with the scalars of the machine before it
Called(call, inst, input) ==
    [ call |-> call, inst |-> inst, input |-> input,
      word |-> IF call = "do_next_instruction" THEN WordAtPC ELSE -1,
      pc |-> pc, sp |-> sp, dt |-> dt, st |-> st, flag |-> key_just_released,
      unpressed |-> unpressed,
      site |-> IF calls = <<>> THEN -1 ELSE calls[Len(calls)] ]

Commit(m) ==
    /\ v' = m.v
    /\ dt' = m.dt
    /\ st' = m.st
    /\ i' = m.i
    /\ pc' = m.pc
    /\ sp' = m.sp
    /\ ram' = m.ram
    /\ stack' = m.stack
    /\ vram' = m.vram
    /\ curr' = m.curr
    /\ prev' = m.prev
    /\ key_just_released' = m.key_just_released

\* emu_setup: Chip8::new().load_font(args.font).load_rom(args.rom)
\* The state in which the machine m, built with the given overflow checks, is
\* handed over by the call named
InitAs(m, checks, call) ==
    /\ v = m.v
    /\ dt = m.dt
    /\ st = m.st
    /\ i = m.i
    /\ pc = m.pc
    /\ sp = m.sp
    /\ ram = m.ram
    /\ stack = m.stack
    /\ vram = m.vram
    /\ curr = m.curr
    /\ prev = m.prev
    /\ key_just_released = m.key_just_released
    /\ overflow_checks = checks
    /\ result = [kind |-> IF m.panicked THEN "panic" ELSE "none", opcode |-> 0]
    /\ last = [ call |-> call, inst |-> NoInst, input |-> NoInput, word |-> -1,
                pc |-> m.pc, sp |-> m.sp, dt |-> m.dt, st |-> m.st,
                flag |-> m.key_just_released, unpressed |-> {}, site |-> -1 ]
    /\ touched = {}
    /\ calls = <<>>
    /\ curr_at_step = -1
    /\ steps = 0
    /\ before = m
    /\ at_store = [v |-> m.v, i |-> m.i, x |-> -1]
    /\ earlier = m
    /\ unpressed = {}
    /\ ran = {}
    /\ updates = 0
    /\ host_pressed = {}

InitFrom(roms) ==
    \E checks \in BOOLEAN, font \in Fonts, rom \in roms :
        \E m \in {LoadRom(LoadFont(New(checks), font), rom)} : InitAs(m, checks, "new")

Init == InitFrom(Roms)

\* The bytes thread_rng() can yield, where the instruction at the PC reads one
RandomBytes(m) ==
    LET f == Fetch(m)
    IN  IF ~f.m.panicked /\ Decode(f.opcode).op = "RandAndImmediate" THEN 0..255 ELSE {0}

Alive == result.kind # "panic"

\* A call of Chip8::do_next_instruction
StepCall ==
    /\ Alive
    /\ \E rnd \in RandomBytes(Machine) :
          \E o \in {DoNextInstruction(Machine, rnd)} :
              /\ Commit(o.m)
              /\ result' = [kind |-> o.kind, opcode |-> o.opcode]
              /\ last' = Called("do_next_instruction", o.inst, NoInput)
              /\ touched' = o.m.touched
              /\ calls' = IF o.kind = "Ok" /\ o.inst.op = "Call" THEN Append(calls, pc)
                          ELSE IF o.kind = "Ok" /\ o.inst.op = "Ret" /\ calls # <<>>
                          THEN SubSeq(calls, 1, Len(calls) - 1)
                          ELSE calls
    /\ curr_at_step' = curr
    /\ unpressed' = {}
    /\ UNCHANGED <<overflow_checks, ran, updates, host_pressed>>

Step == StepCall /\ UNCHANGED <<steps, before, at_store, earlier>>

\* The same call, with the machine it was made on kept
TracedStepCall ==
    /\ StepCall
    /\ before' = Machine
    /\ at_store' = IF result'.kind = "Ok" /\ last'.inst.op = "StoreRegisters"
                   THEN [v |-> v, i |-> i, x |-> last'.inst.regx]
                   ELSE IF ram' # ram THEN [at_store EXCEPT !.x = -1]
                   ELSE at_store
    /\ UNCHANGED steps

TracedStep == TracedStepCall /\ UNCHANGED earlier

\* The same call, with the machine the call before it was made on kept too
RetracedStep == TracedStepCall /\ earlier' = before

\* A call of Chip8::do_frame
DoFrame ==
    /\ Alive
    /\ \E m \in {DoFrameOn(Machine)} : Commit(m)
    /\ last' = Called("do_frame", NoInst, NoInput)
    /\ UNCHANGED <<overflow_checks, result, touched, calls, curr_at_step, steps,
                   before, at_store, earlier, unpressed, ran, updates, host_pressed>>

Keys == { KEYMAP[k] : k \in 1..MaxHostKeys }

Inputs == [pressed : BOOLEAN, key : Keys]

\* A call of Chip8::change_input with one of the given events
ChangeInputOf(inputs) ==
    /\ Alive
    /\ \E input \in inputs :
          /\ \E m \in {ChangeInputOn(Machine, input)} : Commit(m)
          /\ last' = Called("change_input", NoInst, input)
    /\ UNCHANGED <<overflow_checks, result, touched, calls, curr_at_step, steps,
                   before, at_store, earlier, ran, updates, host_pressed>>

ChangeInput == ChangeInputOf(Inputs) /\ UNCHANGED unpressed

\* The same call, with the Unpressed events kept
TracedChangeInput(inputs) ==
    /\ ChangeInputOf(inputs)
    /\ unpressed' = IF last'.input.pressed THEN unpressed
                    ELSE unpressed \cup {<<last'.input.key, Bit(curr, last'.input.key) = 1>>}

Next == Step \/ DoFrame \/ ChangeInput

Spec == Init /\ [][Next]_vars

----------------------------------------------------------------------------
(* The decoder probed: one word at 0x200, stepped from *)

ProbeStep ==
    /\ steps < MaxProbeSteps
    /\ StepCall
    /\ steps' = steps + 1
    /\ UNCHANGED <<before, at_store, earlier>>

DecodeSpec == InitFrom(ProbeRoms) /\ [][ProbeStep]_vars

----------------------------------------------------------------------------
(* The core stepped with no call in between, through the programs and     *)
(* through the one that fills the stack                                   *)

StepSpec == InitFrom(StepRoms) /\ [][Step]_vars

----------------------------------------------------------------------------
(* The core drawing: a sprite of n rows drawn at (Va, Vb), then again with Va  *)
(* set anew; I points at the three rows after the program, or at the last two *)
(* cells of the RAM                                                           *)

\* 200: LD Va, xx; 202: LD Vb, yy; 204: LD I, addr; 206: DRW Va, Vb, n;
\* 208: LD Va, xx2; 20A: DRW Va, Vb, n; 20C: JP 0x20C; 20E: FF 81 3C
RomDraw(a, b, xx, yy, n, xx2, addr) ==
    Bytes(<<\h6000 + a * 256 + xx, \h6000 + b * 256 + yy, \hA000 + addr,
            \hD000 + a * 256 + b * 16 + n, \h6000 + a * 256 + xx2,
            \hD000 + a * 256 + b * 16 + n, \h120C, \hFF81, \h3C00>>)

DrawRoms ==
    { RomDraw(ab[1], ab[2], xx, yy, n, xx2, addr) :
        ab \in {<<0, 1>>, <<15, 1>>, <<0, 15>>}, xx \in {0, 60, 70}, yy \in {0, 30, 33},
        n \in {0, 1, 3}, xx2 \in {0, 62}, addr \in {526, 4094} }

DrawSpec == InitFrom(DrawRoms) /\ [][TracedStep]_vars

----------------------------------------------------------------------------
(* The arithmetic of the core: two registers loaded, then one 8xyN or one   *)
(* ADD Vx, kk                                                               *)

\* 200: LD Vx, a; 202: LD Vy, b; 204: 8xyN; 206: JP 0x206
RomAlu(x, y, a, b, n) ==
    Bytes(<<\h6000 + x * 256 + a, \h6000 + y * 256 + b, \h8000 + x * 256 + y * 16 + n,
            \h1206>>)

AluRegs == {0, 1, 15}

AluBytes == {0, 1, 127, 128, 255}

\* 200: LD Vx, a; 202: LD Vy, b; 204: ADD Vx, kk; 206: JP 0x206
RomAddImm(x, y, a, b, kk) ==
    Bytes(<<\h6000 + x * 256 + a, \h6000 + y * 256 + b, \h7000 + x * 256 + kk, \h1206>>)

AluRoms ==
    { RomAlu(x, y, a, b, n) :
        x \in AluRegs, y \in AluRegs, a \in AluBytes, b \in AluBytes,
        n \in (1..7) \cup {14} } \cup
    { RomAddImm(x, y, a, b, kk) :
        x \in AluRegs, y \in AluRegs, a \in AluBytes, b \in AluBytes, kk \in AluBytes }

AluSpec == InitFrom(AluRoms) /\ [][TracedStep]_vars

----------------------------------------------------------------------------
(* The load of an immediate into each register, on a machine whose other    *)
(* parts have all been written                                              *)

\* 200: LD VE, 7; 202: LD DT, VE; 204: LD ST, VE; 206: LD I, 0; 208: DRW V0, V0, 1;
\* 20A: LD VF, 0x55; 20C: CALL 0x20E; 20E: LD Vx, kk; 210: JP 0x210
RomLoadImm(x, kk) ==
    Bytes(<<\h6E07, \hFE15, \hFE18, \hA000, \hD001, \h6F55, \h220E,
            \h6000 + x * 256 + kk, \h1210>>)

LoadImmRoms == { RomLoadImm(x, kk) : x \in 0..15, kk \in 0..255 }

LoadImmSpec == InitFrom(LoadImmRoms) /\ [][TracedStep]_vars

----------------------------------------------------------------------------
(* The decimal digits of each byte, stored in the middle of the RAM and at  *)
(* its last three cells                                                     *)

\* 200: LD Vx, val; 202: LD I, addr; 204: LD B, Vx; 206: JP 0x206
RomBcd(x, val, addr) ==
    Bytes(<<\h6000 + x * 256 + val, \hA000 + addr, \hF033 + x * 256, \h1206>>)

BcdRoms == { RomBcd(x, val, addr) : x \in {0, 5, 15}, val \in 0..255, addr \in {768, 4093} }

BcdSpec == InitFrom(BcdRoms) /\ [][TracedStep]_vars

----------------------------------------------------------------------------
(* Registers stored, overwritten, and loaded back from the same address     *)

\* 200: LD V0, a; 202: LD V1, b; 204: LD V2, 0x3C; 206: LD VF, 0x0F; 208: LD I, addr;
\* 20A: LD [I], Vx; 20C: LD V0, 0x11; 20E: LD V1, 0x22; 210: LD V2, 0x33;
\* 212: LD I, addr; 214: LD Vx, [I]; 216: JP 0x216
RomStoreLoad(x, a, b, addr) ==
    Bytes(<<\h6000 + a, \h6100 + b, \h623C, \h6F0F, \hA000 + addr, \hF055 + x * 256,
            \h6011, \h6122, \h6233, \hA000 + addr, \hF065 + x * 256, \h1216>>)

StoreLoadRoms ==
    { RomStoreLoad(x, a, b, addr) :
        x \in {0, 1, 2, 15}, a \in {0, 90, 255}, b \in {1, 165}, addr \in {768, 4080, 4093} }

StoreLoadSpec == InitFrom(StoreLoadRoms) /\ [][TracedStep]_vars

----------------------------------------------------------------------------
(* ROM files around the size that fills the RAM from 0x200 on: SYS 0x101   *)
(* repeated, which a machine that was loaded steps through to the end       *)

RomOfLength(len) == [k \in 1..len |-> 1]

LoadRoms == { RomOfLength(MEM_SIZE - PROGMEM_START + d) : d \in {-2, 0, 1, 2} }

LoadSpec == InitFrom(LoadRoms) /\ [][Step]_vars

----------------------------------------------------------------------------
(* The core waiting for a key: steps, with key events in between          *)

KeyRoms == { RomWaitKey, RomKeyIntoV1 }

KeySpec == InitFrom(KeyRoms) /\ [][TracedStep \/ ChangeInput]_vars

----------------------------------------------------------------------------
(* The shell: run_emulator adds get_input, do_next_instruction and          *)
(* update_display to the same stage with no order between them.  Each takes *)
(* ResMut<Emulator>, so in one app update each runs once, one at a time, in *)
(* an order the code does not fix.                                          *)

Systems == {"get_input", "do_next_instruction", "update_display"}

\* The end of a system's run: the app update ends when all three have run
Ran(system) ==
    IF ran \cup {system} = Systems
    THEN ran' = {} /\ updates' = updates + 1
    ELSE ran' = ran \cup {system} /\ UNCHANGED updates

CanRun(system) == Alive /\ updates < MaxUpdates /\ system \notin ran

HostKeys == 1..MaxHostKeys

\* KEYMAP.map(..) of get_input from host key k on: a key just pressed is sent as
\* Pressed, else a key just released as Unpressed
RECURSIVE MapKeys(_, _, _, _)
MapKeys(m, k, just_pressed, just_released) ==
    IF k > Len(KEYMAP) THEN m
    ELSE LET m1 == IF k \in just_pressed
                   THEN ChangeInputOn(m, [pressed |-> TRUE, key |-> KEYMAP[k]])
                   ELSE IF k \in just_released
                   THEN ChangeInputOn(m, [pressed |-> FALSE, key |-> KEYMAP[k]])
                   ELSE m
         IN  MapKeys(m1, k + 1, just_pressed, just_released)

\* The system get_input.  Of the host keys, some that were up went down and some
\* that were down went up since the last update.
GetInput ==
    /\ CanRun("get_input")
    /\ \E just_pressed \in SUBSET (HostKeys \ host_pressed),
          just_released \in SUBSET host_pressed :
          /\ \E m \in {MapKeys(Machine, 1, just_pressed, just_released)} : Commit(m)
          /\ host_pressed' = (host_pressed \cup just_pressed) \ just_released
    /\ last' = Called("get_input", NoInst, NoInput)
    /\ Ran("get_input")
    /\ UNCHANGED <<overflow_checks, result, touched, calls, curr_at_step, steps, before,
                   at_store, earlier, unpressed>>

\* for _ in 0..n of the system do_next_instruction: the outcomes of up to n steps
\* from outcome o, which stop at the first step that is not Ok
RECURSIVE StepTimes(_, _)
StepTimes(o, n) ==
    IF n = 0 \/ o.kind # "Ok" THEN {o}
    ELSE UNION { StepTimes(o2, n - 1) :
                 o2 \in { DoNextInstruction(o.m, rnd) : rnd \in RandomBytes(o.m) } }

\* The system do_next_instruction with a key event delivered while it runs
DoNextInstructionSystemWithKey ==
    /\ CanRun("do_next_instruction")
    /\ \E o \in StepTimes([m |-> Machine, kind |-> "Ok", opcode |-> 0, inst |-> NoInst],
                          STEPS_PER_UPDATE) :
          /\ Commit(ChangeInputOn(o.m, [pressed |-> TRUE, key |-> KEYMAP[1]]))
          /\ result' = [kind |-> IF o.kind = "Err" THEN "panic" ELSE o.kind,
                        opcode |-> o.opcode]
          /\ last' = Called("do_next_instruction_system", o.inst, NoInput)
          /\ touched' = o.m.touched
    /\ curr_at_step' = curr
    /\ Ran("do_next_instruction")
    /\ UNCHANGED <<overflow_checks, calls, steps, before, at_store, earlier,
                   unpressed, host_pressed>>

\* The system do_next_instruction: ten steps, and a panic on the first Err
DoNextInstructionSystem ==
    /\ CanRun("do_next_instruction")
    /\ \E o \in StepTimes([m |-> Machine, kind |-> "Ok", opcode |-> 0, inst |-> NoInst],
                          STEPS_PER_UPDATE) :
          /\ Commit(o.m)
          /\ result' = [kind |-> IF o.kind = "Err" THEN "panic" ELSE o.kind,
                        opcode |-> o.opcode]
          /\ last' = Called("do_next_instruction_system", o.inst, NoInput)
          /\ touched' = o.m.touched
    /\ curr_at_step' = curr
    /\ Ran("do_next_instruction")
    /\ UNCHANGED <<overflow_checks, calls, steps, before, at_store, earlier,
                   unpressed, host_pressed>>

\* pixels_setup spawns one pixel for each x in 0..DISPLAY_WIDTH and y in
\* 0..DISPLAY_HEIGHT; the loop of update_display calls do_frame for each pixel
RECURSIVE FrameColumn(_, _)
FrameColumn(m, y) ==
    IF y = DISPLAY_HEIGHT \/ m.panicked THEN m ELSE FrameColumn(DoFrameOn(m), y + 1)

RECURSIVE FramePixels(_, _)
FramePixels(m, x) ==
    IF x = DISPLAY_WIDTH \/ m.panicked THEN m ELSE FramePixels(FrameColumn(m, 0), x + 1)

\* The system update_display
UpdateDisplay ==
    /\ CanRun("update_display")
    /\ \E m \in {FramePixels(Machine, 0)} : Commit(m)
    /\ last' = Called("update_display", NoInst, NoInput)
    /\ Ran("update_display")
    /\ UNCHANGED <<overflow_checks, result, touched, calls, curr_at_step, steps,
                   before, at_store, earlier, unpressed, host_pressed>>

ShellSpec ==
    InitFrom(Roms) /\ [][GetInput \/ DoNextInstructionSystem \/ UpdateDisplay]_vars

----------------------------------------------------------------------------
(* The builder chain of emu_setup, one call at a time: Chip8::new, then     *)
(* load_font with no file or with a font file, then load_rom, then steps    *)

FontOfLength(len, fill) == [some |-> TRUE, bytes |-> [k \in 1..len |-> fill]]

FontLengths == {0, 1, 79, 80, 81, 160, MEM_SIZE, MEM_SIZE + 1}

FontFiles == {[some |-> FALSE]} \cup
             { FontOfLength(len, fill) : len \in FontLengths, fill \in {0, 90, 255} }

SetupRoms == {RomJumpEnd, RomWaitKey, RomJumpZero}

Built(m) == [kind |-> IF m.panicked THEN "panic" ELSE "none", opcode |-> 0]

LoadFontCall ==
    /\ Alive
    /\ last.call = "Chip8::new"
    /\ \E font \in FontFiles :
          /\ \E m \in {LoadFont(Machine, font)} : Commit(m) /\ result' = Built(m)
          /\ last' = Called("load_font", NoInst, font)
    /\ before' = Machine
    /\ UNCHANGED <<overflow_checks, touched, calls, curr_at_step, steps, at_store,
                   earlier, unpressed, ran, updates, host_pressed>>

LoadRomCall ==
    /\ Alive
    /\ last.call = "load_font"
    /\ \E rom \in SetupRoms :
          /\ \E m \in {LoadRom(Machine, rom)} : Commit(m) /\ result' = Built(m)
          /\ last' = Called("load_rom", NoInst, [some |-> TRUE, bytes |-> rom])
    /\ before' = Machine
    /\ UNCHANGED <<overflow_checks, touched, calls, curr_at_step, steps, at_store,
                   earlier, unpressed, ran, updates, host_pressed>>

SetupStep == last.call \in {"load_rom", "do_next_instruction"} /\ TracedStep

SetupInit == \E checks \in BOOLEAN : InitAs(New(checks), checks, "Chip8::new")

SetupSpec == SetupInit /\ [][LoadFontCall \/ LoadRomCall \/ SetupStep]_vars


----------------------------------------------------------------------------
(* The jumps: JP addr as the one word of the program, with key events       *)
(* before and after it; and JP V0, addr after V0 has been loaded            *)

JumpAddrs == {a \in 0..4095 : a < 4 \/ a % 256 \in {0, 1, 255} \/ a > 4093}

JumpRoms == { Bytes(<< \h1000 + addr >>) : addr \in JumpAddrs }

\* One step of the few taken from the start of the program, with the machine it
\* was made on kept
CountedStep(max) ==
    /\ steps < max
    /\ StepCall
    /\ steps' = steps + 1
    /\ before' = Machine
    /\ UNCHANGED <<at_store, earlier>>

JumpSpec == InitFrom(JumpRoms) /\ [][CountedStep(MaxProbeSteps) \/ ChangeInput]_vars

OffsetAddrs == {0, 1, \h123, \h200, \hF00, \hFFE, \hFFF}

\* 200: LD V0, val; 202: JP V0, addr
RomOffset(val, addr) == Bytes(<< \h6000 + val, \hB000 + addr >>)

OffsetRoms == { RomOffset(val, addr) : val \in 0..255, addr \in OffsetAddrs }

OffsetSpec == InitFrom(OffsetRoms) /\ [][CountedStep(MaxOffsetSteps)]_vars


----------------------------------------------------------------------------
(* The core waiting for a key, with the Unpressed events since the last     *)
(* step kept; and the same under a host that keeps stepping and a user who  *)
(* keeps releasing keys                                                     *)

\* The events of the keys 1 and 2
WaitInputs == [pressed : BOOLEAN, key : {KEYMAP[1], KEYMAP[2]}]

Press == TracedChangeInput({e \in WaitInputs : e.pressed})

Release == TracedChangeInput({e \in WaitInputs : ~e.pressed})

WaitSpec == InitFrom({RomKeyIntoV1}) /\ [][TracedStep \/ Press \/ Release]_vars

\* The events of the key 1
OneKeyInputs == {e \in WaitInputs : e.key = KEYMAP[1]}

PressOne == TracedChangeInput({e \in OneKeyInputs : e.pressed})

ReleaseOne == TracedChangeInput({e \in OneKeyInputs : ~e.pressed})

\* The shell steps the core in every app update, and the user keeps releasing the
\* key
WaitFairSpec ==
    /\ InitFrom({RomKeyIntoV1})
    /\ [][TracedStep \/ PressOne \/ ReleaseOne]_vars
    /\ []<><<TracedStep>>_vars
    /\ WF_vars(ReleaseOne)

----------------------------------------------------------------------------
(* The core drawing twice: a background of two rows drawn at (Va, Vb), then  *)
(* a sprite of n rows drawn there two times over                            *)

\* 200: LD Va, xx; 202: LD Vb, yy; 204: LD I, 0x210; 206: DRW Va, Vb, 2;
\* 208: LD I, 0x212; 20A: DRW Va, Vb, n; 20C: DRW Va, Vb, n; 20E: JP 0x20E;
\* 210: the background; 212: the sprite
RomRedraw(a, b, xx, yy, n, bg, sprite) ==
    Bytes(<<\h6000 + a * 256 + xx, \h6000 + b * 256 + yy, \hA210,
            \hD000 + a * 256 + b * 16 + 2, \hA212,
            \hD000 + a * 256 + b * 16 + n, \hD000 + a * 256 + b * 16 + n, \h120E,
            bg, sprite>>)

RedrawRoms ==
    { RomRedraw(ab[1], ab[2], xx, yy, n, bg, sprite) :
        ab \in {<<0, 1>>, <<15, 1>>, <<2, 15>>}, xx \in {0, 60, 70}, yy \in {0, 31},
        n \in {0, 1, 2}, bg \in {\h0000, \hFFFF, \hF00F},
        sprite \in {\h0000, \hFF81, \h8001} }

RedrawSpec == InitFrom(RedrawRoms) /\ [][RetracedStep]_vars


----------------------------------------------------------------------------
(* The index register: programs that keep adding a register to I, with and *)
(* without a store and a load on the way                                    *)

\* 200: LD V0, val; 202: LD I, 0xFFF; 204: ADD I, V0; 206: JP 0x204
RomAddIndex(val) == Bytes(<<\h6000 + val, \hAFFF, \hF01E, \h1204>>)

\* 200: LD V0, val; 202: LD I, 0x300; 204: LD [I], V0; 206: LD V0, [I];
\* 208: ADD I, V0; 20A: JP 0x204
RomStoreLoadAdd(val) == Bytes(<<\h6000 + val, \hA300, \hF055, \hF065, \hF01E, \h1204>>)

IndexRoms == { RomAddIndex(val) : val \in {128, 255} } \cup
             { RomStoreLoadAdd(val) : val \in {1, 255} }

IndexSpec == InitFrom(IndexRoms) /\ [][i <= MaxIndex /\ TracedStep]_vars


----------------------------------------------------------------------------
(* The four compare-and-skip instructions, after two registers have been    *)
(* loaded                                                                   *)

\* 200: LD Va, xx; 202: LD Vb, yy; 204: the skip; 206: JP 0x206; 208: JP 0x208
RomSkip(a, b, xx, yy, word) ==
    Bytes(<<\h6000 + a * 256 + xx, \h6000 + b * 256 + yy, word, \h1206, \h1208>>)

SkipBytes == {0, 1, 255}

\* SE Va, kk; SNE Va, kk; SE Va, Vb; SNE Va, Vb
SkipWords(a, b) ==
    { \h3000 + a * 256 + kk : kk \in SkipBytes } \cup
    { \h4000 + a * 256 + kk : kk \in SkipBytes } \cup
    { \h5000 + a * 256 + b * 16, \h9000 + a * 256 + b * 16 }

SkipRoms ==
    UNION { { RomSkip(ab[1], ab[2], xx, yy, word) : word \in SkipWords(ab[1], ab[2]) } :
            ab \in {<<0, 1>>, <<15, 1>>, <<2, 2>>}, xx \in SkipBytes, yy \in SkipBytes }

SkipSpec == InitFrom(SkipRoms) /\ [][TracedStep]_vars


----------------------------------------------------------------------------
(* The two skips on a key, after the register has been loaded, with events  *)
(* of the key 1 in between                                                  *)

\* 200: LD Va, val; 202: the skip; 204: JP 0x204; 206: JP 0x206
RomKeySkip(a, val, word) == Bytes(<<\h6000 + a * 256 + val, word, \h1204, \h1206>>)

\* SKP Va; SKNP Va
KeySkipWords(a) == { \hE09E + a * 256, \hE0A1 + a * 256 }

KeySkipRoms ==
    UNION { { RomKeySkip(a, val, word) : word \in KeySkipWords(a) } :
            a \in {0, 15}, val \in {0, 1, 15, 16, 17, 255} }

KeySkipInput == ChangeInputOf(OneKeyInputs) /\ UNCHANGED unpressed

KeySkipSpec == InitFrom(KeySkipRoms) /\ [][TracedStep \/ KeySkipInput]_vars


----------------------------------------------------------------------------
(* Frame ticks on a machine with running timers, a lit display, a call on   *)
(* the stack and key events                                                 *)

\* 200: LD V0, 3; 202: LD DT, V0; 204: LD ST, V0; 206: LD I, 0x000;
\* 208: DRW V0, V0, 5; 20A: CALL 0x20C; 20C: JP 0x20C
RomFrame == Bytes(<<\h6003, \hF015, \hF018, \hA000, \hD005, \h220C, \h120C>>)

FrameSpec == InitFrom({RomFrame}) /\ [][TracedStep \/ DoFrame \/ KeySkipInput]_vars


----------------------------------------------------------------------------
(* The claims *)

Stepped == last.call = "do_next_instruction"

\* The words the decode table lists: all but 8xyN with N not in 0..7 or E, Exkk
\* with kk not 9E or A1, and Fxkk with kk not in the list
KnownWord(w) ==
    LET n1 == w \div 4096
        n4 == w % 16
        kk == w % 256
    IN  /\ n1 = 8 => n4 \in (0..7) \cup {14}
        /\ n1 = 14 => kk \in {158, 161}
        /\ n1 = 15 => kk \in {7, 10, 21, 24, 30, 41, 51, 85, 101}

\* C1 as stated: a step returns Err(opcode) exactly when the word at the PC matches
\* no known encoding, and returns Ok(opcode) with that word for every other word.
C1_Original ==
    (Stepped /\ last.word # -1) =>
        /\ result.kind = "Err" <=> ~KnownWord(last.word)
        /\ result.kind = "Err" => result.opcode = last.word
        /\ KnownWord(last.word) =>
              /\ last.inst.op # "Unknown"
              /\ result = [kind |-> "Ok", opcode |-> last.word]

\* C1 as amended: a step returns Err(opcode) exactly when the word at the PC matches
\* no known encoding; for every other word the decoder yields a known instruction
\* and the step either returns Ok(opcode) with that word or panics without returning.
C1_DecodeError ==
    (Stepped /\ last.word # -1) =>
        /\ result.kind = "Err" <=> ~KnownWord(last.word)
        /\ result.kind = "Err" => result.opcode = last.word
        /\ KnownWord(last.word) =>
              /\ last.inst.op # "Unknown"
              /\ result.kind \in {"Ok", "panic"}
              /\ result.kind = "Ok" => result.opcode = last.word

\* An input word that is neither SKP nor SKNP was stepped on and returned as Err
C1_Witness ==
    /\ Stepped
    /\ last.word \div 4096 = 14
    /\ result = [kind |-> "Err", opcode |-> last.word]

\* C2 as stated: every RAM index a step uses (opcode fetch, sprite rows, BCD, store,
\* load) is at least 0 and below 4096.
C2_AddressesInRange == \A a \in touched : 0 <= a /\ a < MEM_SIZE

\* The addresses of JP and CALL in the RAM's words from 0x200 on are even, and so is
\* the sum of each JP-V0's address and V0
EvenTargets ==
    \A a \in PROGMEM_START..(MEM_SIZE - 2) :
        (a % 2 = 0 /\ (a \in DOMAIN ram \/ a + 1 \in DOMAIN ram)) =>
            LET w == At(ram, a) * 256 + At(ram, a + 1)
            IN  /\ w \div 4096 \in {1, 2} => (w % 4096) % 2 = 0
                /\ w \div 4096 = 11 => ((w % 4096) + v[0]) % 2 = 0

\* C3 as stated: after any number of steps PC is in [0, 4096), and PC is even
\* provided every JP and CALL target is even and every JP-V0 sum is even.
C3_PCInRange ==
    result.kind # "panic" =>
        /\ 0 <= pc /\ pc < MEM_SIZE
        /\ EvenTargets => pc % 2 = 0

\* C4: a step that executes RET while SP = 0 does not complete as Ok (it panics),
\* and PC is not loaded from a stack slot: it keeps its value.
C4_RetOnEmptyStackFaults ==
    (Stepped /\ last.inst.op = "Ret" /\ last.sp = 0) =>
        /\ result.kind = "panic"
        /\ pc = last.pc

C4_Witness ==
    /\ Stepped
    /\ last.inst.op = "Ret"
    /\ last.sp = 0
    /\ result.kind = "panic"

\* C5: a step that executes CALL while SP = 1024 does not complete as Ok (it
\* panics), no cell outside the 1024 of the stack is ever written, and SP never
\* exceeds 1024 in a machine that has not panicked (and is left at 1024 by the
\* faulting CALL).
C5_CallOnFullStackFaults ==
    /\ DOMAIN stack \subseteq 0..(STACK_SIZE - 1)
    /\ result.kind # "panic" => (0 <= sp /\ sp <= STACK_SIZE)
    /\ (Stepped /\ last.inst.op = "Call" /\ last.sp = STACK_SIZE) =>
          /\ result.kind = "panic"
          /\ sp = STACK_SIZE

C5_Witness ==
    /\ Stepped
    /\ last.inst.op = "Call"
    /\ last.sp = STACK_SIZE
    /\ result.kind = "panic"

StackIsOpenCalls ==
    /\ Len(calls) = sp
    /\ \A k \in 1..Len(calls) : At(stack, k - 1) = calls[k]

C7_FrameTickDecrements ==
    /\ dt \in 0..255
    /\ st \in 0..255
    /\ last.call = "do_frame" =>
          /\ dt = (IF last.dt > 0 THEN last.dt - 1 ELSE 0)
          /\ st = (IF last.st > 0 THEN last.st - 1 ELSE 0)

\* A tick with DT positive and ST already 0
C7_Witness ==
    /\ last.call = "do_frame"
    /\ last.dt > 0
    /\ dt = last.dt - 1
    /\ last.st = 0
    /\ st = 0

\* C8: a step of any instruction but Fx15 leaves DT as it was, a step of any
\* instruction but Fx18 leaves ST as it was, and a key event changes neither.
C8_StepsLeaveTimers ==
    /\ (Stepped /\ last.inst.op # "WriteDelayTimer") => dt = last.dt
    /\ (Stepped /\ last.inst.op # "WriteSoundTimer") => st = last.st
    /\ last.call = "change_input" => (dt = last.dt /\ st = last.st)

\* A step that completed while both timers were running
C8_Witness ==
    /\ Stepped
    /\ result.kind = "Ok"
    /\ last.inst.op \notin {"WriteDelayTimer", "WriteSoundTimer"}
    /\ last.dt > 0
    /\ last.st > 0
    /\ dt = last.dt
    /\ st = last.st

\* C9 as stated: one run of update_display calls do_frame once, so a positive DT or
\* ST is lower by exactly 1 after it, however many pixels are drawn.
C9_OneTickPerFrame ==
    last.call = "update_display" =>
        /\ dt = (IF last.dt > 0 THEN last.dt - 1 ELSE 0)
        /\ st = (IF last.st > 0 THEN last.st - 1 ELSE 0)

\* C10 as stated: change_input(Pressed(k)) sets bit k of the current bitmap and
\* leaves the previous bitmap equal to the current bitmap of the last step, also
\* after two or more key events since that step.
C10_PrevIsPreStep ==
    (last.call = "change_input" /\ last.input.pressed /\ curr_at_step # -1) =>
        /\ Bit(curr, last.input.key) = 1
        /\ prev = curr_at_step

\* C11: change_input(Unpressed(k)) clears bit k of curr and sets the just-released
\* flag; a flag that is set stays set through every further key event (and frame
\* tick) until the next step; every step that returns Ok leaves the flag false.
C11_ReleaseFlagHeld ==
    /\ (last.call = "change_input" /\ ~last.input.pressed) =>
          /\ Bit(curr, last.input.key) = 0
          /\ key_just_released
    /\ (last.call \in {"change_input", "do_frame"} /\ last.flag) => key_just_released
    /\ (Stepped /\ result.kind = "Ok") => ~key_just_released

\* A press delivered while the flag of an earlier release was set, and the flag
\* still set after it
C11_Witness ==
    /\ last.call = "change_input"
    /\ last.input.pressed
    /\ last.flag
    /\ key_just_released
    /\ curr_at_step # -1

\* The index of the greatest-numbered bit set in the 16-bit x, or -1 where none is
HighestBit(x) ==
    IF x = 0 THEN -1
    ELSE CHOOSE k \in 0..15 : Bit(x, k) = 1 /\ \A j \in (k + 1)..15 : Bit(x, j) = 0

\* The keys of prev that are not in curr
PrevAndNotCurr == BitAnd(prev, Not16(curr), 16)

\* C12 as stated: a step executing Fx0A with the just-released flag true sets Vx to the
\* index of the greatest-numbered bit set in (prev AND NOT curr) and advances PC by
\* 2; with the flag false it writes no register and leaves PC where it was.
C12_WaitForKey ==
    (Stepped /\ last.inst.op = "StoreKeypress" /\ result.kind = "Ok") =>
        IF last.flag
        THEN /\ v[last.inst.regx] = HighestBit(PrevAndNotCurr)
             /\ \A r \in 0..15 : r # last.inst.regx => v[r] = before.v[r]
             /\ pc = last.pc + 2
        ELSE /\ v = before.v
             /\ pc = last.pc

Drew == Stepped /\ last.inst.op = "Draw" /\ result.kind = "Ok"

\* Bit c (from the left) of row r of the sprite at I
SpriteBit(r, c) == Bit(At(before.ram, before.i + r), 7 - c)

\* The cells the set bits of the sprite land on, drawn from column sx and row sy
\* on, those past the right or bottom edge left out
Landed(sx, sy) ==
    { <<sy + rc[1], sx + rc[2]>> :
        rc \in { q \in (0..14) \X (0..7) : /\ q[1] < last.inst.nibble
                                           /\ SpriteBit(q[1], q[2]) = 1
                                           /\ sx + q[2] < DISPLAY_WIDTH
                                           /\ sy + q[1] < DISPLAY_HEIGHT } }

\* The state after a DRW whose sprite starts at column sx and row sy
DrawnFrom(sx, sy) ==
    /\ vram = (before.vram \ Landed(sx, sy)) \cup (Landed(sx, sy) \ before.vram)
    /\ v[15] = (IF Landed(sx, sy) \cap before.vram # {} THEN 1 ELSE 0)
    /\ \A r \in 0..14 : v[r] = before.v[r]

\* C13 as stated: after DRW(x, y, n), VF = 1 iff a set sprite bit landed on an
\* in-bounds cell that was ON, else VF = 0; the set bits in bounds toggle their cells
\* at (Vx mod 64 + c, Vy mod 32 + r), Vx and Vy being the registers as the step found
\* them; the bits past column 63 or row 31 are clipped; all other cells are unchanged.
C13_Original ==
    Drew => DrawnFrom(before.v[last.inst.regx] % DISPLAY_WIDTH,
                      before.v[last.inst.regy] % DISPLAY_HEIGHT)

\* Vr as DRW reads it: after VF has been cleared
ReadAfterClear(r) == IF r = 15 THEN 0 ELSE before.v[r]

\* C13 as amended: a DRW whose n rows lie in the RAM (I + n <= 4096, or n = 0)
\* returns Ok and does the same, with Vx and Vy read after VF has been cleared, so
\* that the sprite starts at column 0 where x = 0xF and at row 0 where y = 0xF; a DRW
\* with a row past the RAM panics.
C13_DrawClipsAndFlags ==
    (Stepped /\ last.inst.op = "Draw") =>
        IF last.inst.nibble = 0 \/ before.i + last.inst.nibble <= MEM_SIZE
        THEN /\ result.kind = "Ok"
             /\ DrawnFrom(ReadAfterClear(last.inst.regx) % DISPLAY_WIDTH,
                          ReadAfterClear(last.inst.regy) % DISPLAY_HEIGHT)
        ELSE result.kind = "panic"

\* A sprite of three rows drawn from column 62 and row 30 over lit cells: clipped on
\* both edges, with a collision
C13_Witness ==
    /\ Drew
    /\ last.inst.nibble = 3
    /\ before.v[last.inst.regx] = 62
    /\ before.v[last.inst.regy] = 30
    /\ before.vram # {}
    /\ v[15] = 1
    /\ <<30, 63>> \in before.vram \ vram

\* A step of the instruction op that returned Ok
Did(op) == Stepped /\ last.inst.op = op /\ result.kind = "Ok"

\* The registers of the last instruction and their values before it
X == last.inst.regx

Y == last.inst.regy

OldVx == before.v[X]

OldVy == before.v[Y]

\* C14 as stated: after ADD-reg, SUB and SUBN, VF holds the flag of the operation
\* (carry; 1 if no borrow, 0 if borrow) for every x and y, x = 0xF included.
C14_FlagInVF ==
    /\ Did("AddReg") => v[15] = (IF OldVx + OldVy > 255 THEN 1 ELSE 0)
    /\ Did("SubReg") => v[15] = (IF OldVx >= OldVy THEN 1 ELSE 0)
    /\ Did("SubNReg") => v[15] = (IF OldVy >= OldVx THEN 1 ELSE 0)

\* The byte whose bit k is f[<<bit k of a, bit k of b>>]
Bitwise(f, a, b) ==
    CHOOSE n \in 0..255 : \A k \in 0..7 : Bit(n, k) = f[<<Bit(a, k), Bit(b, k)>>]

OrBits == [q \in {0, 1} \X {0, 1} |-> IF q[1] + q[2] > 0 THEN 1 ELSE 0]

AndBits == [q \in {0, 1} \X {0, 1} |-> q[1] * q[2]]

XorBits == [q \in {0, 1} \X {0, 1} |-> (q[1] + q[2]) % 2]

LogicDone(f) ==
    /\ v[15] = 0
    /\ X # 15 => v[X] = Bitwise(f, OldVx, OldVy)
    /\ \A r \in 0..14 : r # X => v[r] = before.v[r]

\* C15: after OR, AND or XOR, VF = 0 for every x and y; for x other than 0xF, Vx is
\* the bitwise result of the old Vx and the old Vy; no other register changes.
C15_LogicClearsVF ==
    /\ Did("OrReg") => LogicDone(OrBits)
    /\ Did("AndReg") => LogicDone(AndBits)
    /\ Did("XorReg") => LogicDone(XorBits)

\* OR V0, VF with VF not 0 before: V0 takes the bits, VF is cleared
C15_Witness ==
    /\ Did("OrReg")
    /\ X = 0
    /\ Y = 15
    /\ OldVx = 1
    /\ OldVy = 128
    /\ v[0] = 129
    /\ v[15] = 0

\* C16: SHR and SHL take their operand from Vy.  After SHR, VF = old Vy AND 1 and,
\* for x other than 0xF, Vx = old Vy >> 1; after SHL, VF = bit 7 of old Vy and, for
\* x other than 0xF, Vx = (old Vy << 1) mod 256.
C16_ShiftsTakeVy ==
    /\ Did("ShiftRightReg") =>
          /\ v[15] = OldVy % 2
          /\ X # 15 => v[X] = OldVy \div 2
    /\ Did("ShiftLeftReg") =>
          /\ v[15] = OldVy \div 128
          /\ X # 15 => v[X] = (OldVy * 2) % 256

\* SHR V0, V1 with V0 = 128 and V1 = 255 before: V0 = 127 and VF = 1 come from V1
C16_Witness ==
    /\ Did("ShiftRightReg")
    /\ X = 0
    /\ Y = 1
    /\ OldVx = 128
    /\ OldVy = 255
    /\ v[0] = 127
    /\ v[15] = 1

\* All of the machine but the V registers and the PC is as before the last step
RestUnchanged ==
    /\ i = before.i
    /\ sp = before.sp
    /\ dt = before.dt
    /\ st = before.st
    /\ ram = before.ram
    /\ stack = before.stack
    /\ vram = before.vram

\* C17: for all x in 0..15 and kk in 0..255, after a step of 6xkk Vx = kk; every
\* other V register (VF too, where x is not 0xF), I, SP, DT, ST, the RAM, the stack
\* and the VRAM are unchanged; PC has advanced by exactly 2.
C17_LoadImmFrame ==
    (Stepped /\ last.word \div 4096 = 6) =>
        /\ result = [kind |-> "Ok", opcode |-> last.word]
        /\ v[(last.word \div 256) % 16] = last.word % 256
        /\ \A r \in 0..15 : r # (last.word \div 256) % 16 => v[r] = before.v[r]
        /\ RestUnchanged
        /\ pc = before.pc + 2

\* LD V3, 0xAB on a machine with VF = 0x55, both timers running, a return address
\* on the stack and lit pixels
C17_Witness ==
    /\ Stepped
    /\ last.word = 25515
    /\ v[3] = 171
    /\ before.v[3] = 0
    /\ v[15] = 85
    /\ dt = 7
    /\ sp = 1
    /\ stack # Zeroed
    /\ vram # {}
    /\ pc = PROGMEM_START + 16

\* C18: for every byte in Vx and every I with I + 2 < 4096, after Fx33 the bytes
\* b0 = RAM[I], b1 = RAM[I+1], b2 = RAM[I+2] satisfy 100*b0 + 10*b1 + b2 = Vx with b1
\* and b2 in 0..9; the digits are those of the value of Vx, not of x; I is unchanged.
C18_BcdDigits ==
    (Stepped /\ last.inst.op = "StoreBCD" /\ before.i >= 0 /\ before.i + 2 < MEM_SIZE) =>
        /\ result.kind = "Ok"
        /\ 100 * At(ram, before.i) + 10 * At(ram, before.i + 1) + At(ram, before.i + 2) = OldVx
        /\ At(ram, before.i + 1) \in 0..9
        /\ At(ram, before.i + 2) \in 0..9
        /\ i = before.i
        /\ v = before.v

\* 254 in V5 stored as 2, 5, 4 in the last three cells of the RAM
C18_Witness ==
    /\ Did("StoreBCD")
    /\ X = 5
    /\ OldVx = 254
    /\ i = MEM_SIZE - 3
    /\ At(ram, MEM_SIZE - 3) = 2
    /\ At(ram, MEM_SIZE - 2) = 5
    /\ At(ram, MEM_SIZE - 1) = 4

\* C19 as stated: Fx55 writes V0..Vx to RAM[I..I+x] and advances I by x + 1; Fx65
\* reads V0..Vx from RAM[I..I+x] and advances I by x + 1; a store, I set back to its
\* value before the store, and a load with the same x leave V0..Vx as they were
\* before the store; the registers above Vx are untouched by both.
C19_StoreLoadRoundTrip ==
    /\ (Stepped /\ last.inst.op = "StoreRegisters") =>
          /\ result.kind = "Ok"
          /\ \A r \in 0..X : At(ram, before.i + r) = before.v[r]
          /\ i = before.i + X + 1
          /\ v = before.v
    /\ (Stepped /\ last.inst.op = "ReadRegisters") =>
          /\ result.kind = "Ok"
          /\ \A r \in 0..X : v[r] = At(before.ram, before.i + r)
          /\ \A r \in (X + 1)..15 : v[r] = before.v[r]
          /\ i = before.i + X + 1
    /\ (Did("ReadRegisters") /\ at_store.x = X /\ at_store.i = before.i) =>
          /\ \A r \in 0..X : v[r] = at_store.v[r]
          /\ \A r \in (X + 1)..15 : v[r] = before.v[r]

\* The RAM of the core before load_rom: zeros, with the font at its start
RamBeforeLoad == [a \in {k \in 0..79 : DEFAULT_FONT[k + 1] # 0} |-> DEFAULT_FONT[a + 1]]

\* C20 as stated: a load_rom that fails (the ROM is longer than 3584 bytes) writes no
\* byte past the address space and leaves the core in its pre-load state: no RAM
\* byte is modified by the failed load.
C20_FailedLoadLeavesCore ==
    (last.call = "new" /\ result.kind = "panic") =>
        /\ DOMAIN ram \subseteq 0..(MEM_SIZE - 1)
        /\ ram = RamBeforeLoad


\* The font file the last call was given
FontGiven == last.input

\* C21 as stated: load_font modifies only RAM[0x000..0x050): at most 80 bytes are
\* copied, also from a font file longer than 80 bytes; with no font file the
\* default table is installed, glyph d at RAM[5d..5d+4]; no cell from 0x050 up, and
\* so none from 0x200 up, is touched by load_font.
C21_LoadFontFrame ==
    last.call = "load_font" =>
        /\ result.kind # "panic"
        /\ \A a \in 80..(MEM_SIZE - 1) : At(ram, a) = At(before.ram, a)
        /\ ~FontGiven.some =>
              \A d \in 0..15 : \A k \in 0..4 : At(ram, 5 * d + k) = DEFAULT_FONT[5 * d + k + 1]
        /\ FontGiven.some =>
              \A k \in 0..79 : At(ram, k) = IF k < Len(FontGiven.bytes)
                                            THEN FontGiven.bytes[k + 1] ELSE 0

\* C22: Chip8::new yields a machine with every V register, I, SP, DT, ST, every
\* RAM, stack and VRAM cell, both key bitmaps and the just-released flag zero or
\* false, and PC = 0x200.
C22_NewIsZeroed ==
    last.call = "Chip8::new" =>
        /\ \A r \in 0..15 : v[r] = 0
        /\ i = 0 /\ sp = 0 /\ dt = 0 /\ st = 0
        /\ \A a \in 0..(MEM_SIZE - 1) : At(ram, a) = 0
        /\ \A a \in 0..(STACK_SIZE - 1) : At(stack, a) = 0
        /\ vram = {}
        /\ curr = 0 /\ prev = 0 /\ key_just_released = FALSE
        /\ pc = 512

C22_Witness == last.call = "Chip8::new" /\ pc = PROGMEM_START /\ result.kind = "none"


\* The last step changed nothing of the machine but the PC and the
\* just-released flag
OnlyPCAndFlag ==
    /\ v = before.v /\ dt = before.dt /\ st = before.st /\ i = before.i
    /\ sp = before.sp /\ ram = before.ram /\ stack = before.stack
    /\ vram = before.vram /\ curr = before.curr

\* C23 as stated: for every 12-bit addr, 0 and 1 included, the step of JP addr
\* completes with PC = addr, and changes nothing else but the just-released flag,
\* which it clears.
C23_JumpLands ==
    (Stepped /\ last.inst.op = "Jump") =>
        /\ result.kind = "Ok"
        /\ pc = last.inst.addr
        /\ OnlyPCAndFlag
        /\ key_just_released = FALSE

CompletedLdK == Did("StoreKeypress") /\ pc = last.pc + 2

\* The keys that were down when an Unpressed event for them came, since the step
\* before the last
ReleasedDown == { e[1] : e \in {u \in last.unpressed : u[2]} }

\* C25 as stated: whenever a step completes LD Vx, K, Vx is the number of a key for
\* which an Unpressed event that turned a pressed key off was delivered since the
\* previous step; for every sequence of events, a release followed by a press and
\* the release of a key that was not pressed included.
C25_KeyStoredWasReleased == CompletedLdK => v[X] \in ReleasedDown

\* The PC is at an LD Vx, K
AtLdK == InRam(pc + 1) /\ At(ram, pc) \div 16 = 15 /\ At(ram, pc + 1) = 10

\* The step of LD Vx, K goes past it when an Unpressed event came since the step
\* before, and otherwise leaves the PC and the registers where they were
StepAtLdK ==
    (Stepped /\ last.inst.op = "StoreKeypress") =>
        /\ result.kind = "Ok"
        /\ last.unpressed # {} => pc = last.pc + 2
        /\ last.unpressed = {} => pc = last.pc /\ v = before.v

\* C26: the wait for a key ends on a release.  With the PC at LD Vx, K, an Unpressed
\* event delivered before the next step makes that step complete (PC advances by
\* 2); where steps and releases keep coming, the wait ends; with no Unpressed event
\* the machine stays at the same PC.
C26_WaitEndsOnRelease == [](StepAtLdK) /\ (AtLdK ~> ~AtLdK)

C26_Witness == CompletedLdK /\ last.unpressed # {} /\ last.inst.regx = 1



\* The last two steps were the same DRW Vx, Vy, n, with x and y other than 0xF, on
\* the same I, sprite and coordinates
SameDrawTwice ==
    /\ Did("Draw")
    /\ before.pc = earlier.pc + 2
    /\ Fetch(earlier).opcode = last.word
    /\ X # 15 /\ Y # 15
    /\ before.i = earlier.i
    /\ before.ram = earlier.ram
    /\ before.v[X] = earlier.v[X]
    /\ before.v[Y] = earlier.v[Y]

\* The cells the set bits of the sprite of the last DRW land on
LandedNow == Landed(before.v[X] % DISPLAY_WIDTH, before.v[Y] % DISPLAY_HEIGHT)

\* C27 as stated: DRW executed twice with I, the sprite and the coordinates
\* unchanged (x and y other than 0xF) restores the VRAM to its value before the
\* first draw, and after the second draw VF = 1 whenever the sprite has a set bit
\* landing in bounds.
C27_Original ==
    SameDrawTwice =>
        /\ vram = earlier.vram
        /\ LandedNow # {} => v[15] = 1

\* C27 as amended: the two draws restore the VRAM to its value before the first, and
\* after the second draw VF = 1 iff a set bit of the sprite landed in bounds on a
\* cell that was OFF before the first draw (and so ON before the second); where
\* every such cell was ON before the first draw VF = 0.
C27_RedrawRestores ==
    SameDrawTwice =>
        /\ vram = earlier.vram
        /\ v[15] = (IF LandedNow \ earlier.vram # {} THEN 1 ELSE 0)

\* A sprite drawn twice over a background that was lit under all of it
C27_Witness ==
    /\ SameDrawTwice
    /\ LandedNow # {}
    /\ LandedNow \subseteq earlier.vram
    /\ vram = earlier.vram
    /\ before.vram # vram
    /\ v[15] = 0



\* C28 as stated: I is a 16-bit value in every reachable state; ADD I, Vx sets I to
\* (I + Vx) mod 65536, and no sequence of ADD I, stores and loads makes I exceed
\* 0xFFFF.
C28_IndexIs16Bit ==
    /\ i \in 0..65535
    /\ Did("AddIndex") => i = (before.i + before.v[X]) % 65536



\* The last step changed no register, no RAM, stack or VRAM cell
OnlyPC ==
    /\ v = before.v /\ i = before.i /\ dt = before.dt /\ st = before.st
    /\ sp = before.sp /\ ram = before.ram /\ stack = before.stack
    /\ vram = before.vram

\* The last step ended Ok with the next instruction skipped iff holds
SkippedIff(holds) ==
    /\ result.kind = "Ok"
    /\ pc = last.pc + (IF holds THEN 4 ELSE 2)
    /\ OnlyPC

\* C29: the step of SE Vx, kk; SNE Vx, kk; SE Vx, Vy; SNE Vx, Vy ends with
\* PC = old PC + 4 when its predicate holds (Vx = kk, Vx # kk, Vx = Vy, Vx # Vy)
\* and with PC = old PC + 2 otherwise, and changes no register, RAM or VRAM.
C29_SkipsCompare ==
    /\ (Stepped /\ last.inst.op = "SkipEqualImm") => SkippedIff(OldVx = last.inst.imm)
    /\ (Stepped /\ last.inst.op = "SkipNotEqualImm") => SkippedIff(OldVx # last.inst.imm)
    /\ (Stepped /\ last.inst.op = "SkipEqualReg") => SkippedIff(OldVx = OldVy)
    /\ (Stepped /\ last.inst.op = "SkipNotEqualReg") => SkippedIff(OldVx # OldVy)

C29_Witness ==
    /\ Did("SkipNotEqualReg")
    /\ X = 15 /\ Y = 1
    /\ OldVx = 255 /\ OldVy = 0
    /\ pc = last.pc + 4



\* Bit k of the key bitmap the last step found; the bitmap has the bits 0..15
KeyBit(k) == IF k < 16 THEN Bit(before.curr, k) ELSE 0

\* C30 as stated: for every value of Vx in 0..255, SKP Vx skips the next instruction
\* (PC + 4) exactly when bit Vx of the current key bitmap is 1 and SKNP Vx exactly
\* when that bit is 0, so that one of the two, and only one, would skip; the step
\* completes Ok also when Vx >= 16, a value that names no set bit.
C30_KeySkips ==
    /\ (Stepped /\ last.inst.op = "SkipIfKeyPressed") => SkippedIff(KeyBit(OldVx) = 1)
    /\ (Stepped /\ last.inst.op = "SkipIfKeyNotPressed") => SkippedIff(KeyBit(OldVx) = 0)



\* C31: ADD Vx, kk sets Vx to (Vx + kk) mod 256 and writes no carry: for x other
\* than 0xF, VF after the step is VF before it, for every Vx and kk, the sums above
\* 255 included.
C31_AddImmWraps ==
    (Stepped /\ last.inst.op = "AddImm") =>
        /\ result.kind = "Ok"
        /\ v[X] = (OldVx + last.inst.imm) % 256
        /\ X # 15 => v[15] = before.v[15]

C31_Witness ==
    /\ Did("AddImm")
    /\ X = 0
    /\ OldVx = 255 /\ last.inst.imm = 1
    /\ v[0] = 0
    /\ before.v[15] = 255 /\ v[15] = 255

CoreButKeys == <<v, dt, st, i, pc, sp, ram, stack, vram>>

Core == <<v, dt, st, i, pc, sp, ram, stack, vram, curr, prev, key_just_released>>

\* C34: a step that returns Err(opcode) for a word that is no instruction leaves the
\* whole machine as it was: the PC is not advanced, the just-released flag is not
\* reset, and no register, RAM, stack or VRAM cell changes; the opcode returned is
\* the word at the PC, and a step taken next returns the same Err.
C34_ErrLeavesMachine ==
    [][ /\ (last'.call = "do_next_instruction" /\ result'.kind = "Err") =>
              /\ UNCHANGED Core
              /\ result'.opcode = WordAtPC
        /\ (Stepped /\ result.kind = "Err" /\ last'.call = "do_next_instruction") =>
              result' = result
      ]_vars

\* The step of 8018 returned Err with the just-released flag still set
C34_Witness ==
    /\ Stepped
    /\ result = [kind |-> "Err", opcode |-> 32792]
    /\ pc = 514
    /\ v[0] = 5
    /\ key_just_released



\* The bits in which the two key bitmaps differ
ChangedKeys == {k \in 0..15 : Bit(curr, k) # Bit(prev, k)}

C36_FrameTouchesTimersOnly ==
    [][ last'.call = "do_frame" =>
          UNCHANGED <<pc, sp, i, v, ram, stack, vram, curr, prev, key_just_released>>
      ]_vars

\* A tick that took both timers down, with the glyph on the display, a call open,
\* a key down and the just-released flag set
C36_Witness ==
    /\ last.call = "do_frame"
    /\ dt < last.dt /\ st < last.st
    /\ vram # {}
    /\ sp = 1 /\ stack # Zeroed
    /\ curr # 0
    /\ key_just_released



\* The machine is as the last traced step found it
AsBefore ==
    /\ pc = before.pc /\ sp = before.sp /\ i = before.i /\ v = before.v
    /\ dt = before.dt /\ st = before.st
    /\ ram = before.ram /\ stack = before.stack /\ vram = before.vram
    /\ curr = before.curr /\ prev = before.prev
    /\ key_just_released = before.key_just_released

\* C37: a waiting step is a stutter: when LD Vx, K is executed with the
\* just-released flag false, the whole machine after the step (PC, SP, I, the V
\* registers, DT, ST, RAM, stack, VRAM, key bitmaps, flag) is the machine before it,
\* and the step returns Ok(opcode).
C37_WaitingStepStutters ==
    (Stepped /\ last.inst.op = "StoreKeypress" /\ ~last.flag) =>
        /\ result = [kind |-> "Ok", opcode |-> last.word]
        /\ AsBefore

\* A waiting step of LD V1, K with V1 = 7 and a key held down
C37_Witness ==
    /\ Did("StoreKeypress")
    /\ ~last.flag
    /\ X = 1 /\ v[1] = 7
    /\ curr # 0
    /\ pc = 514 /\ last.pc = 514



\* The slots of the stack that the step being taken changes
SlotsWritten == { k \in 0..(STACK_SIZE - 1) : At(stack', k) # At(stack, k) }

\* C38: in every state of a machine that has not faulted 0 <= SP <= 1024 and SP is
\* the number of completed CALL steps less the number of completed RET steps (the
\* length of the list of open calls, which every completed CALL extends by one and
\* every completed RET shortens by one); only CALL writes a stack slot, and the
\* slot is the one at SP before the increment; no instruction other than CALL and
\* RET changes SP or the stack.
C38_StackPointerCountsOpenCalls ==
    /\ [](result.kind # "panic" => (0 <= sp /\ sp <= STACK_SIZE /\ sp = Len(calls)))
    /\ [][ /\ DOMAIN stack' \subseteq 0..(STACK_SIZE - 1)
           /\ (result'.kind = "Ok" /\ last'.inst.op = "Call") =>
                 /\ Len(calls') = Len(calls) + 1
                 /\ sp' = sp + 1
                 /\ At(stack', sp) = pc
                 /\ SlotsWritten \subseteq {sp}
           /\ (result'.kind = "Ok" /\ last'.inst.op = "Ret") =>
                 /\ Len(calls') = Len(calls) - 1
                 /\ sp' = sp - 1
                 /\ SlotsWritten = {}
           /\ last'.inst.op # "Call" => SlotsWritten = {}
           /\ last'.inst.op \notin {"Call", "Ret"} =>
                 /\ sp' = sp
                 /\ calls' = calls
         ]_vars

\* The 1024th nested CALL has completed: the stack is full of open calls
C38_Witness ==
    /\ Did("Call")
    /\ sp = STACK_SIZE
    /\ Len(calls) = STACK_SIZE
    /\ At(stack, STACK_SIZE - 1) = PROGMEM_START


=============================================================================
